---- MODULE Spec2Model ----
(***************************************************************************)
(* ReferralFlow: the contact list of App(), its form, its filters and its  *)
(* localStorage persistence.  Two builds of App() are in the repository:   *)
(*   "App.tsx"   src/src/App.tsx: the list is stored as JSON text, there   *)
(*               is no delete button;                                      *)
(*   "part_001"  src/unnamed/part_001, lines 1058-1748: the list is stored *)
(*               AES-encrypted, rows have a delete button.                 *)
(* A text is a sequence of one-character strings.                          *)
(***************************************************************************)
EXTENDS Integers, Sequences, FiniteSets, TLC

\* ------------------------------------------------------------------------
\* Bounds of the model
\* ------------------------------------------------------------------------

\* longest contact list the add handler is let to build
MaxContacts == 2

\* most optional settings (a stage or status other than the first, contact
\* details, a message other than the template, a tag) that the form and the
\* list hold together when the user makes one more
MaxOptional == 1

\* ------------------------------------------------------------------------
\* Application constants
\* ------------------------------------------------------------------------

Builds == {"App.tsx", "part_001"}

STAGES == <<
    <<"C", "o", "n", "n", "e", "c", "t", "i", "o", "n", " ", "S", "e", "n", "t">>,
    <<"A", "c", "c", "e", "p", "t", "e", "d">>,
    <<"R", "e", "f", "e", "r", "r", "a", "l", " ", "A", "s", "k", "e", "d">> >>

REFERRAL_STATUSES == <<
    <<"P", "e", "n", "d", "i", "n", "g">>,
    <<"W", "i", "l", "l", " ", "R", "e", "f", "e", "r">>,
    <<"W", "o", "n", "'", "t", " ", "R", "e", "f", "e", "r">> >>

TAGS == <<
    <<"S", "J", "S", "U", " ", "A", "l", "u", "m">>,
    <<"H", "i", "r", "i", "n", "g", " ", "M", "a", "n", "a", "g", "e", "r">>,
    <<"F", "a", "s", "t", " ", "R", "e", "s", "p", "o", "n", "d", "e", "r">>,
    <<"H", "i", "g", "h", " ", "P", "r", "i", "o", "r", "i", "t", "y">>,
    <<"T", "e", "c", "h", " ", "L", "e", "a", "d">>,
    <<"R", "e", "f", "e", "r", "r", "e", "d", " ", "B", "e", "f", "o", "r", "e">> >>

\* the first line of the template and the empty line after it; the lines
\* left out hold the same kinds of characters (letters, spaces, brackets,
\* commas, full stops, an apostrophe, line breaks)
DEFAULT_REFERRAL_MESSAGE ==
    <<"H", "i", " ", "[", "H", "i", "r", "i", "n", "g", " ", "M", "a", "n", "a", "g", "e", "r",
      "]", ",", "\n", "\n">>

ENCRYPTION_KEY == "your-secure-key-2024"

STORAGE_KEY == "referralflow-contacts"

\* ------------------------------------------------------------------------
\* JavaScript values, as JSON.parse builds them and JSON.stringify reads them
\* ------------------------------------------------------------------------

JsString(s) == [t |-> "string", s |-> s]
JsNumber(n) == [t |-> "number", n |-> n]
JsBoolean(b) == [t |-> "boolean", b |-> b]
JsNull == [t |-> "null"]
\* the value of a hole of an array
JsUndefined == [t |-> "undefined"]
JsArray(a) == [t |-> "array", a |-> a]
\* an object is the sequence of its <<key, value>> members, in insertion order
JsObject(o) == [t |-> "object", o |-> o]

\* if (v): false for null, "", 0 and false, true for every object and array
Truthy(v) ==
    CASE v.t \in {"null", "undefined"} -> FALSE
      [] v.t = "string" -> v.s # <<>>
      [] v.t = "number" -> v.n # 0
      [] v.t = "boolean" -> v.b
      [] OTHER -> TRUE

HasKey(obj, k) == \E i \in 1..Len(obj.o) : obj.o[i][1] = k

\* obj[k] for a key the object has (with a repeated key the last member wins)
GetKey(obj, k) ==
    LET last == CHOOSE i \in 1..Len(obj.o) :
                    /\ obj.o[i][1] = k
                    /\ \A j \in (i + 1)..Len(obj.o) : obj.o[j][1] # k
    IN obj.o[last][2]

\* ------------------------------------------------------------------------
\* JSON.stringify
\* ------------------------------------------------------------------------

Digits == <<"0", "1", "2", "3", "4", "5", "6", "7", "8", "9">>

\* characters that may not stand unescaped inside a JSON string
ControlChars == {"\n", "\t", "\r", "\f"}

Whitespace == {" ", "\n", "\t", "\r"}

\* EscapeChar without the escapes of the control characters: a wrong codec
\* that the round trip has to tell from the right one
EscapeChar_ControlsRaw(c) ==
    CASE c = "\"" -> <<"\\", "\"">>
      [] c = "\\" -> <<"\\", "\\">>
      [] OTHER -> <<c>>

\* the characters JSON.stringify writes for the character c of a string
EscapeChar(c) ==
    CASE c = "\"" -> <<"\\", "\"">>
      [] c = "\\" -> <<"\\", "\\">>
      [] c = "\n" -> <<"\\", "n">>
      [] c = "\t" -> <<"\\", "t">>
      [] c = "\r" -> <<"\\", "r">>
      [] c = "\f" -> <<"\\", "f">>
      [] OTHER -> <<c>>

\* the second components of the pairs of marks whose first component is TRUE
Kept(marks) ==
    LET kept == SelectSeq(marks, LAMBDA m : m[1])
    IN [p \in 1..Len(kept) |-> kept[p][2]]

\* every character of s replaced by its escape sequence
EscapeText(s) ==
    Kept([k \in 1..(2 * Len(s)) |->
            LET e == EscapeChar(s[(k + 1) \div 2]) IN
            IF k % 2 = 1 THEN <<TRUE, e[1]>>
            ELSE IF Len(e) = 2 THEN <<TRUE, e[2]>>
            ELSE <<FALSE, "">>])

Quote(s) == <<"\"">> \o EscapeText(s) \o <<"\"">>

RECURSIVE NumberText(_)
NumberText(n) ==
    IF n < 10 THEN <<Digits[n + 1]>>
    ELSE NumberText(n \div 10) \o <<Digits[(n % 10) + 1]>>

RECURSIVE JSONstringify(_), StringifyElements(_), StringifyMembers(_)
JSONstringify(v) ==
    CASE v.t = "string" -> Quote(v.s)
      [] v.t = "number" -> NumberText(v.n)
      [] v.t = "boolean" -> IF v.b THEN <<"t", "r", "u", "e">>
                            ELSE <<"f", "a", "l", "s", "e">>
      [] v.t = "null" -> <<"n", "u", "l", "l">>
      \* a hole of an array is written as null
      [] v.t = "undefined" -> <<"n", "u", "l", "l">>
      [] v.t = "array" -> <<"[">> \o StringifyElements(v.a) \o <<"]">>
      [] v.t = "object" -> <<"{">> \o StringifyMembers(v.o) \o <<"}">>

StringifyElements(a) ==
    IF a = <<>> THEN <<>>
    ELSE JSONstringify(Head(a))
            \o (IF Len(a) > 1 THEN <<",">> ELSE <<>>)
            \o StringifyElements(Tail(a))

StringifyMembers(o) ==
    IF o = <<>> THEN <<>>
    ELSE Quote(Head(o)[1]) \o <<":">> \o JSONstringify(Head(o)[2])
            \o (IF Len(o) > 1 THEN <<",">> ELSE <<>>)
            \o StringifyMembers(Tail(o))

\* ------------------------------------------------------------------------
\* JSON.parse: a result is [ok |-> TRUE, v |-> value, next |-> position
\* after it], or ParseFail where JSON.parse throws a SyntaxError
\* ------------------------------------------------------------------------

ParseFail == [ok |-> FALSE]

Parsed(v, next) == [ok |-> TRUE, v |-> v, next |-> next]

\* first position at or after i that holds no whitespace
SkipWs(txt, i) ==
    CHOOSE j \in i..(Len(txt) + 1) :
        /\ \A k \in i..(j - 1) : txt[k] \in Whitespace
        /\ j = Len(txt) + 1 \/ txt[j] \notin Whitespace

IsAt(txt, i, word) ==
    /\ i + Len(word) - 1 <= Len(txt)
    /\ SubSeq(txt, i, i + Len(word) - 1) = word

DigitValue(c) == (CHOOSE d \in 1..10 : Digits[d] = c) - 1

IsDigit(c) == \E d \in 1..10 : Digits[d] = c

\* the character an escape sequence \e stands for, <<>> if there is none
Unescape(e) ==
    CASE e = "\"" -> <<"\"">>
      [] e = "\\" -> <<"\\">>
      [] e = "/" -> <<"/">>
      [] e = "n" -> <<"\n">>
      [] e = "t" -> <<"\t">>
      [] e = "r" -> <<"\r">>
      [] e = "f" -> <<"\f">>
      [] OTHER -> <<>>

\* the number of backslashes that stand in a row just before position j,
\* none of them before position lo
BackslashRun(txt, lo, j) ==
    LET first == CHOOSE k \in lo..j :
                    /\ \A m \in k..(j - 1) : txt[m] = "\\"
                    /\ k = lo \/ txt[k - 1] # "\\"
    IN j - first

\* position j is the second character of an escape sequence
Escaped(txt, lo, j) == BackslashRun(txt, lo, j) % 2 = 1

ClosesString(txt, lo, j) == txt[j] = "\"" /\ ~Escaped(txt, lo, j)

\* the string literal whose characters start at position lo, after its
\* opening quote
ParseChars(txt, lo) ==
    IF ~\E j \in lo..Len(txt) : ClosesString(txt, lo, j) THEN ParseFail
    ELSE
    LET q == CHOOSE j \in lo..Len(txt) :
                /\ ClosesString(txt, lo, j)
                /\ \A m \in lo..(j - 1) : ~ClosesString(txt, lo, m)
        wellFormed ==
            \A p \in lo..(q - 1) :
                /\ txt[p] \notin ControlChars
                /\ Escaped(txt, lo, p) => Unescape(txt[p]) # <<>>
        marks == [n \in 1..(q - lo) |->
                    LET p == lo + n - 1 IN
                    IF Escaped(txt, lo, p) THEN <<TRUE, Unescape(txt[p])[1]>>
                    ELSE IF txt[p] = "\\" THEN <<FALSE, "">>
                    ELSE <<TRUE, txt[p]>>]
    IN IF wellFormed THEN Parsed(JsString(Kept(marks)), q + 1) ELSE ParseFail

\* the digits of a number from position i on; acc is the value read so far
RECURSIVE ParseDigits(_, _, _)
ParseDigits(txt, i, acc) ==
    IF i <= Len(txt) /\ IsDigit(txt[i])
    THEN ParseDigits(txt, i + 1, 10 * acc + DigitValue(txt[i]))
    ELSE Parsed(JsNumber(acc), i)

RECURSIVE ParseValue(_, _), ParseElements(_, _, _), ParseMembers(_, _, _)
ParseValue(txt, i0) ==
    LET i == SkipWs(txt, i0) IN
    IF i > Len(txt) THEN ParseFail
    ELSE IF txt[i] = "\"" THEN ParseChars(txt, i + 1)
    ELSE IF txt[i] = "[" THEN
        LET j == SkipWs(txt, i + 1) IN
        IF j <= Len(txt) /\ txt[j] = "]" THEN Parsed(JsArray(<<>>), j + 1)
        ELSE ParseElements(txt, i + 1, <<>>)
    ELSE IF txt[i] = "{" THEN
        LET j == SkipWs(txt, i + 1) IN
        IF j <= Len(txt) /\ txt[j] = "}" THEN Parsed(JsObject(<<>>), j + 1)
        ELSE ParseMembers(txt, i + 1, <<>>)
    ELSE IF IsAt(txt, i, <<"t", "r", "u", "e">>) THEN Parsed(JsBoolean(TRUE), i + 4)
    ELSE IF IsAt(txt, i, <<"f", "a", "l", "s", "e">>) THEN Parsed(JsBoolean(FALSE), i + 5)
    ELSE IF IsAt(txt, i, <<"n", "u", "l", "l">>) THEN Parsed(JsNull, i + 4)
    ELSE IF txt[i] = "0" THEN Parsed(JsNumber(0), i + 1)
    ELSE IF IsDigit(txt[i]) THEN ParseDigits(txt, i, 0)
    ELSE ParseFail

\* the elements of an array from position i on, up to its closing bracket
ParseElements(txt, i, acc) ==
    LET e == ParseValue(txt, i) IN
    IF ~e.ok THEN ParseFail
    ELSE LET j == SkipWs(txt, e.next) IN
         IF j > Len(txt) THEN ParseFail
         ELSE IF txt[j] = "]" THEN Parsed(JsArray(Append(acc, e.v)), j + 1)
         ELSE IF txt[j] = "," THEN ParseElements(txt, j + 1, Append(acc, e.v))
         ELSE ParseFail

\* the members of an object from position i on, up to its closing brace
ParseMembers(txt, i0, acc) ==
    LET i == SkipWs(txt, i0) IN
    IF i > Len(txt) \/ txt[i] # "\"" THEN ParseFail
    ELSE LET k == ParseChars(txt, i + 1) IN
         IF ~k.ok THEN ParseFail
         ELSE LET c == SkipWs(txt, k.next) IN
              IF c > Len(txt) \/ txt[c] # ":" THEN ParseFail
              ELSE LET m == ParseValue(txt, c + 1) IN
                   IF ~m.ok THEN ParseFail
                   ELSE LET j == SkipWs(txt, m.next)
                            members == Append(acc, <<k.v.s, m.v>>)
                        IN IF j > Len(txt) THEN ParseFail
                           ELSE IF txt[j] = "}" THEN Parsed(JsObject(members), j + 1)
                           ELSE IF txt[j] = "," THEN ParseMembers(txt, j + 1, members)
                           ELSE ParseFail

\* JSON.parse(txt): [ok |-> TRUE, v |-> value], or ParseFail where it throws
JSONparse(txt) ==
    LET r == ParseValue(txt, 1) IN
    IF r.ok /\ SkipWs(txt, r.next) = Len(txt) + 1
    THEN [ok |-> TRUE, v |-> r.v]
    ELSE ParseFail

\* ------------------------------------------------------------------------
\* Contact records
\* ------------------------------------------------------------------------

K_name == <<"n", "a", "m", "e">>
K_company == <<"c", "o", "m", "p", "a", "n", "y">>
K_stage == <<"s", "t", "a", "g", "e">>
K_referralStatus == <<"r", "e", "f", "e", "r", "r", "a", "l", "S", "t", "a", "t", "u", "s">>
K_contactDetails == <<"c", "o", "n", "t", "a", "c", "t", "D", "e", "t", "a", "i", "l", "s">>
K_referralMessage == <<"r", "e", "f", "e", "r", "r", "a", "l", "M", "e", "s", "s", "a", "g", "e">>
K_tags == <<"t", "a", "g", "s">>

Contact(n, c, s, r, d, m, g) ==
    [name |-> n, company |-> c, stage |-> s, referralStatus |-> r,
     contactDetails |-> d, referralMessage |-> m, tags |-> g]

\* the object a Contact is at run time, its keys in the order of the object
\* literal that addOrUpdateContact builds
ContactToJs(c) ==
    JsObject(<< <<K_name, JsString(c.name)>>,
                <<K_company, JsString(c.company)>>,
                <<K_stage, JsString(c.stage)>>,
                <<K_referralStatus, JsString(c.referralStatus)>>,
                <<K_contactDetails, JsString(c.contactDetails)>>,
                <<K_referralMessage, JsString(c.referralMessage)>>,
                <<K_tags, JsArray([i \in 1..Len(c.tags) |-> JsString(c.tags[i])])>> >>)

ContactsToJs(list) == JsArray([i \in 1..Len(list) |-> ContactToJs(list[i])])

IsJsStringKey(v, k) == HasKey(v, k) /\ GetKey(v, k).t = "string"

\* v has the shape of the type Contact
IsContactJs(v) ==
    /\ v.t = "object"
    /\ \A k \in {K_name, K_company, K_stage, K_referralStatus,
                 K_contactDetails, K_referralMessage} : IsJsStringKey(v, k)
    /\ HasKey(v, K_tags)
    /\ GetKey(v, K_tags).t = "array"
    /\ \A i \in 1..Len(GetKey(v, K_tags).a) : GetKey(v, K_tags).a[i].t = "string"

\* v has the shape of the type Contact[]
IsContactsJs(v) == v.t = "array" /\ \A i \in 1..Len(v.a) : IsContactJs(v.a[i])

JsToContact(v) ==
    Contact(GetKey(v, K_name).s, GetKey(v, K_company).s, GetKey(v, K_stage).s,
            GetKey(v, K_referralStatus).s, GetKey(v, K_contactDetails).s,
            GetKey(v, K_referralMessage).s,
            [i \in 1..Len(GetKey(v, K_tags).a) |-> GetKey(v, K_tags).a[i].s])

JsToContacts(v) == [i \in 1..Len(v.a) |-> JsToContact(v.a[i])]

\* ------------------------------------------------------------------------
\* localStorage items and the two codecs
\* ------------------------------------------------------------------------

\* getItem returns null for a key that was never set
NoItem == [k |-> "null"]

\* a stored string, given by its characters
TextItem(text) == [k |-> "text", text |-> text]

\* the string JSON.stringify(v), given by the value it was made from
JsonItem(v) == [k |-> "json", v |-> v]

\* the string CryptoJS.AES.encrypt(plain, key).toString() returns for the
\* string plain when it draws the given salt
AesItem(key, salt, plain) == [k |-> "aes", key |-> key, salt |-> salt, plain |-> plain]

\* the characters of a string that is no AES output
Chars(item) == IF item.k = "json" THEN JSONstringify(item.v) ELSE item.text

\* if (storedData): false for null and for the empty string
ItemTruthy(item) == item.k # "null" /\ item # TextItem(<<>>)

\* salts CryptoJS.AES.encrypt may draw
Salts == {1}

\* CryptoJS.AES.decrypt(item, key).toString(CryptoJS.enc.Utf8): the plain
\* text under the key it was encrypted with; for any other string either an
\* exception ("Malformed UTF-8 data") or bytes that are no JSON text
AESdecrypt(item, key) ==
    IF item.k = "aes" /\ item.key = key
    THEN [ok |-> TRUE, plain |-> item.plain]
    ELSE [ok |-> FALSE]

encryptData(data, salt) == AesItem(ENCRYPTION_KEY, salt, JsonItem(data))

\* the try block returns the parsed value, the catch block returns null
ParsedOrNull(parsed) == IF parsed.ok THEN parsed.v ELSE JsNull

decryptData(item) ==
    LET bytes == AESdecrypt(item, ENCRYPTION_KEY) IN
    IF ~bytes.ok THEN JsNull ELSE ParsedOrNull(JSONparse(Chars(bytes.plain)))

\* JSON.parse(storedContacts) of App.tsx; the base64 text of an AES output
\* is no JSON text
ParseItem(item) ==
    IF item.k = "aes" THEN ParseFail ELSE JSONparse(Chars(item))

\* what the build b reads out of a stored string: the value, or threw where
\* an exception leaves the decoding
ParsedOrThrown(parsed) ==
    IF parsed.ok THEN [threw |-> FALSE, v |-> parsed.v] ELSE [threw |-> TRUE]

DecodeItem(b, item) ==
    IF b = "App.tsx"
    THEN ParsedOrThrown(ParseItem(item))
    ELSE [threw |-> FALSE, v |-> decryptData(item)]

\* what the load effect does: "throw" an uncaught exception, "skip"
\* setContacts, or "set" contacts to the value v; only part_001 tests the
\* value before it sets it
LoadDecoded(b, decoded) ==
    IF decoded.threw THEN [do |-> "throw"]
    ELSE IF b = "App.tsx" \/ Truthy(decoded.v) THEN [do |-> "set", v |-> decoded.v]
    ELSE [do |-> "skip"]

LoadEffect(b, item) ==
    IF ~ItemTruthy(item) THEN [do |-> "skip"] ELSE LoadDecoded(b, DecodeItem(b, item))

\* the item the save effect writes for the value v of contacts
EncodeItem(b, v, salt) ==
    IF b = "App.tsx" THEN JsonItem(v) ELSE encryptData(v, salt)

\* a wrong test, which lets the save effect write the empty list too
HasLength_Always(v) == TRUE

\* contacts.length > 0, for an array v
HasLength(v) == Len(v.a) > 0

\* the items the save effect may leave in storage when contacts has become
\* the array v
SaveEffect(b, v, item) ==
    IF HasLength(v) THEN {EncodeItem(b, v, salt) : salt \in Salts} ELSE {item}

\* a value React cannot render as a child
IsObjectChild(v) == v.t = "object"

\* the row of the element e throws while it is filtered or rendered; a hole
\* of the array is skipped by filter
RowThrows(e) ==
    /\ e.t # "undefined"
    /\ \/ e.t # "object"
       \/ ~IsJsStringKey(e, K_name)
       \/ ~IsJsStringKey(e, K_company)
       \/ ~HasKey(e, K_tags)
       \/ GetKey(e, K_tags).t # "array"
       \/ \E i \in 1..Len(GetKey(e, K_tags).a) : IsObjectChild(GetKey(e, K_tags).a[i])
       \/ \E k \in {K_stage, K_referralStatus, K_contactDetails} :
              HasKey(e, k) /\ IsObjectChild(GetKey(e, k))

\* rendering App with contacts = v throws a TypeError (contacts.filter is
\* not a function, or a row throws)
RenderThrows(v) == v.t # "array" \/ \E i \in 1..Len(v.a) : RowThrows(v.a[i])

\* ------------------------------------------------------------------------
\* Texts the user types and options the user picks
\* ------------------------------------------------------------------------

NameInputs == {<<>>, <<"A", "l">>}

CompanyInputs == {<<>>, <<"A", "c", "m", "e">>}

\* options picked in the two select elements of the form
StageInputs == {STAGES[1], STAGES[2]}

ReferralStatusInputs == {REFERRAL_STATUSES[1], REFERRAL_STATUSES[2]}

ContactDetailsInputs == {<<>>, <<"a", "@", "b">>}

\* the template, and a message with brackets, a line break, a quote and a
\* backslash
ReferralMessageInputs == {DEFAULT_REFERRAL_MESSAGE, <<"[", "\n", "]", "\"", "\\">>}

\* tag buttons pressed in the form
TagInputs == {TAGS[1]}

\* ------------------------------------------------------------------------
\* State
\* ------------------------------------------------------------------------

VARIABLES
    build,            \* which App() runs
    status,           \* "unmounted", "running", or where the model stops:
                      \* "threw" (uncaught exception in the load effect),
                      \* "crashed" (render threw), "malformed"
    storage,          \* localStorage.getItem('referralflow-contacts')
    contacts,         \* useState<Contact[]>, while it holds a Contact[]
    junk,             \* the value of contacts once it is no Contact[]
    showAddForm,
    name, company, stage, referralStatus, contactDetails, referralMessage,
    selectedTags,
    editIndex,
    notification,
    nameFilter, companyFilter, stageFilter, statusFilter, tagFilter,
    probe             \* input and outputs of the codec where it is run on its own

form == <<name, company, stage, referralStatus, contactDetails,
          referralMessage, selectedTags, editIndex, showAddForm>>

filters == <<nameFilter, companyFilter, stageFilter, statusFilter, tagFilter>>

notes == <<notification>>

fixed == <<build, probe>>

vars == <<build, status, storage, contacts, junk, form, notes, filters, probe>>

\* editIndex: number | null
NullIndex == [isNull |-> TRUE]
Index(i) == [isNull |-> FALSE, i |-> i]

\* notification: string | null
NullNotification == "null"

MsgInvalid == "Please enter both name and company."
MsgUpdated == "Contact updated successfully."
MsgAdded == "Contact added successfully."
MsgDeleted == "Contact deleted successfully"
MsgLinkedIn == "Opening LinkedIn Jobs in a new tab"

NoJunk == JsUndefined

NoProbe == [step |-> "none"]

\* ------------------------------------------------------------------------
\* Filter
\* ------------------------------------------------------------------------

UpperCase == <<"A", "B", "C", "D", "E", "F", "G", "H", "I", "J", "K", "L", "M",
               "N", "O", "P", "Q", "R", "S", "T", "U", "V", "W", "X", "Y", "Z">>

LowerCase == <<"a", "b", "c", "d", "e", "f", "g", "h", "i", "j", "k", "l", "m",
               "n", "o", "p", "q", "r", "s", "t", "u", "v", "w", "x", "y", "z">>

\* a wrong lower casing, which changes nothing
toLowerCase_Unchanged(s) == s

\* String.prototype.toLowerCase on the characters of the model: A-Z become
\* a-z, any other character stays
toLowerCase(s) ==
    [i \in 1..Len(s) |->
        IF \E n \in 1..26 : UpperCase[n] = s[i]
        THEN LowerCase[CHOOSE n \in 1..26 : UpperCase[n] = s[i]]
        ELSE s[i]]

\* s.includes(sub), for strings
includes(s, sub) ==
    \E i \in 0..(Len(s) - Len(sub)) : SubSeq(s, i + 1, i + Len(sub)) = sub

\* list.includes(x), for arrays
arrayIncludes(list, x) == \E i \in 1..Len(list) : list[i] = x

nameMatch(contact, nf) == includes(toLowerCase(contact.name), toLowerCase(nf))

companyMatch(contact, cf) == includes(toLowerCase(contact.company), toLowerCase(cf))

stageMatch(contact, sf) == sf = <<>> \/ contact.stage = sf

statusMatch(contact, rf) == rf = <<>> \/ contact.referralStatus = rf

\* a wrong tag test, without the case of the unset criterion
tagMatch_SetOnly(contact, tf) == arrayIncludes(contact.tags, tf)

tagMatch(contact, tf) == tf = <<>> \/ arrayIncludes(contact.tags, tf)

\* a wrong conjunction, which lets the tag test stand in for the stage test
Matches_StageOrTag(contact, nf, cf, sf, rf, tf) ==
    /\ nameMatch(contact, nf)
    /\ companyMatch(contact, cf)
    /\ (stageMatch(contact, sf) \/ tagMatch(contact, tf))
    /\ statusMatch(contact, rf)

Matches(contact, nf, cf, sf, rf, tf) ==
    /\ nameMatch(contact, nf)
    /\ companyMatch(contact, cf)
    /\ stageMatch(contact, sf)
    /\ statusMatch(contact, rf)
    /\ tagMatch(contact, tf)

\* a wrong filter, which returns the matching contacts last first
Filter_Reversed(list, nf, cf, sf, rf, tf) ==
    LET kept == SelectSeq(list, LAMBDA c : Matches(c, nf, cf, sf, rf, tf))
    IN [k \in 1..Len(kept) |-> kept[Len(kept) + 1 - k]]

\* a wrong filter, which loses the first matching contact
Filter_FirstLost(list, nf, cf, sf, rf, tf) ==
    LET kept == SelectSeq(list, LAMBDA c : Matches(c, nf, cf, sf, rf, tf))
    IN IF kept = <<>> THEN kept ELSE Tail(kept)

Filter(list, nf, cf, sf, rf, tf) ==
    SelectSeq(list, LAMBDA c : Matches(c, nf, cf, sf, rf, tf))

filteredContacts ==
    Filter(contacts, nameFilter, companyFilter, stageFilter, statusFilter, tagFilter)

\* the index argument of the buttons of the displayed rows
Rows == 0..(Len(filteredContacts) - 1)

\* ------------------------------------------------------------------------
\* Initial state: the component before its first render, over whatever a
\* previous session left under the storage key
\* ------------------------------------------------------------------------

SeedContact ==
    Contact(<<"A", "l">>, <<"A", "c", "m", "e">>, STAGES[1], REFERRAL_STATUSES[1],
            <<>>, DEFAULT_REFERRAL_MESSAGE, <<>>)

SeedText == JsonItem(ContactsToJs(<<SeedContact>>))

\* JSON text of a value that is no array
ObjectText == TextItem(<<"{", "}">>)

\* text that is no JSON
BrokenText == TextItem(<<"[", "{">>)

OTHER_KEY == "some-other-key"

StoredItems ==
    {NoItem, TextItem(<<>>), BrokenText, ObjectText, SeedText,
     AesItem(ENCRYPTION_KEY, 1, BrokenText), AesItem(ENCRYPTION_KEY, 1, ObjectText),
     AesItem(ENCRYPTION_KEY, 1, SeedText), AesItem(OTHER_KEY, 1, SeedText)}

FormDefaults ==
    /\ name = <<>>
    /\ company = <<>>
    /\ stage = STAGES[1]
    /\ referralStatus = REFERRAL_STATUSES[1]
    /\ contactDetails = <<>>
    /\ referralMessage = DEFAULT_REFERRAL_MESSAGE
    /\ selectedTags = <<>>
    /\ editIndex = NullIndex
    /\ showAddForm = FALSE

Unmounted ==
    /\ status = "unmounted"
    /\ contacts = <<>>
    /\ junk = NoJunk
    /\ FormDefaults
    /\ notification = NullNotification
    /\ nameFilter = <<>>
    /\ companyFilter = <<>>
    /\ stageFilter = <<>>
    /\ statusFilter = <<>>
    /\ tagFilter = <<>>

Init ==
    /\ build \in Builds
    /\ storage \in StoredItems
    /\ Unmounted
    /\ probe = NoProbe

\* ------------------------------------------------------------------------
\* Mount: first render, load effect, save effect
\* ------------------------------------------------------------------------

\* a wrong save effect, which writes the initial empty list on mount
MountSave_Writes(b, item) == {EncodeItem(b, ContactsToJs(<<>>), salt) : salt \in Salts}

\* the items the first run of the save effect may leave in storage: it runs
\* after the load effect, with the initial value [] of contacts
MountSave(b, item) == SaveEffect(b, ContactsToJs(<<>>), item)

\* the items in storage after the first run of the save effect and its
\* second run, with the value v that the load effect has set
SavedAfterMount(b, v, item) == UNION {SaveEffect(b, v, first) : first \in MountSave(b, item)}

\* the first render cycle, load being what the load effect does; an
\* exception in the load effect may or may not keep the save effect from
\* running
MountLoaded(load) ==
    /\ CASE load.do = "throw" ->
                /\ status' = "threw"
                /\ storage' \in MountSave(build, storage) \cup {storage}
                /\ UNCHANGED <<contacts, junk>>
         [] load.do = "skip" ->
                /\ status' = "running"
                /\ storage' \in MountSave(build, storage)
                /\ UNCHANGED <<contacts, junk>>
         [] load.do = "set" /\ IsContactsJs(load.v) ->
                /\ status' = "running"
                /\ contacts' = JsToContacts(load.v)
                /\ storage' \in SavedAfterMount(build, load.v, storage)
                /\ UNCHANGED junk
         [] load.do = "set" /\ ~IsContactsJs(load.v) /\ RenderThrows(load.v) ->
                /\ status' = "crashed"
                /\ junk' = load.v
                /\ storage' \in MountSave(build, storage)
                /\ UNCHANGED contacts
         [] load.do = "set" /\ ~IsContactsJs(load.v) /\ ~RenderThrows(load.v) ->
                /\ status' = "malformed"
                /\ junk' = load.v
                /\ storage' \in SavedAfterMount(build, load.v, storage)
                /\ UNCHANGED contacts
    /\ UNCHANGED <<fixed, form, notes, filters>>

Mount ==
    /\ status = "unmounted"
    /\ MountLoaded(LoadEffect(build, storage))

\* the page is loaded again: the state of the component is lost, storage is not
Reload ==
    /\ status # "unmounted"
    /\ status' = "unmounted"
    /\ contacts' = <<>>
    /\ junk' = NoJunk
    /\ name' = <<>>
    /\ company' = <<>>
    /\ stage' = STAGES[1]
    /\ referralStatus' = REFERRAL_STATUSES[1]
    /\ contactDetails' = <<>>
    /\ referralMessage' = DEFAULT_REFERRAL_MESSAGE
    /\ selectedTags' = <<>>
    /\ editIndex' = NullIndex
    /\ showAddForm' = FALSE
    /\ notification' = NullNotification
    /\ nameFilter' = <<>>
    /\ companyFilter' = <<>>
    /\ stageFilter' = <<>>
    /\ statusFilter' = <<>>
    /\ tagFilter' = <<>>
    /\ UNCHANGED <<fixed, storage>>

\* ------------------------------------------------------------------------
\* Notifications
\* ------------------------------------------------------------------------

\* setNotification(message); the setTimeout it starts is TimerFires
showNotification(message) == notification' = message

\* the callback of a setTimeout of showNotification, 3 seconds after any
\* notification that is not older than the one on display: while one is on
\* display the timeout of at least that one is pending
TimerFires ==
    /\ status = "running"
    /\ notification # NullNotification
    /\ notification' = NullNotification
    /\ UNCHANGED <<fixed, status, storage, contacts, junk, form, filters>>

\* ------------------------------------------------------------------------
\* The form
\* ------------------------------------------------------------------------

OpenForm ==
    /\ status = "running"
    /\ showAddForm' = TRUE
    /\ UNCHANGED <<fixed, status, storage, contacts, junk, notes, filters,
                   name, company, stage, referralStatus, contactDetails,
                   referralMessage, selectedTags, editIndex>>

FormShown == status = "running" /\ showAddForm

\* the record addOrUpdateContact builds from the form
contactData ==
    Contact(name, company, stage, referralStatus, contactDetails,
            referralMessage, selectedTags)

\* how many optional settings of the contact c differ from the defaults
Optional(c) ==
    Len(c.tags)
    + Cardinality({f \in {"stage", "referralStatus", "contactDetails", "referralMessage"} :
                        c[f] # [stage |-> STAGES[1],
                                referralStatus |-> REFERRAL_STATUSES[1],
                                contactDetails |-> <<>>,
                                referralMessage |-> DEFAULT_REFERRAL_MESSAGE][f]})

RECURSIVE OptionalOfList(_)
OptionalOfList(list) ==
    IF list = <<>> THEN 0 ELSE Optional(Head(list)) + OptionalOfList(Tail(list))

\* the form may come to hold the optional settings of c
MayHold(c) == Optional(c) + OptionalOfList(contacts) <= MaxOptional

SetName(v) ==
    /\ FormShown
    /\ name' = v
    /\ UNCHANGED <<fixed, status, storage, contacts, junk, notes, filters,
                   company, stage, referralStatus, contactDetails,
                   referralMessage, selectedTags, editIndex, showAddForm>>

SetCompany(v) ==
    /\ FormShown
    /\ company' = v
    /\ UNCHANGED <<fixed, status, storage, contacts, junk, notes, filters,
                   name, stage, referralStatus, contactDetails,
                   referralMessage, selectedTags, editIndex, showAddForm>>

SetStage(v) ==
    /\ FormShown
    /\ MayHold([contactData EXCEPT !.stage = v])
    /\ stage' = v
    /\ UNCHANGED <<fixed, status, storage, contacts, junk, notes, filters,
                   name, company, referralStatus, contactDetails,
                   referralMessage, selectedTags, editIndex, showAddForm>>

SetReferralStatus(v) ==
    /\ FormShown
    /\ MayHold([contactData EXCEPT !.referralStatus = v])
    /\ referralStatus' = v
    /\ UNCHANGED <<fixed, status, storage, contacts, junk, notes, filters,
                   name, company, stage, contactDetails,
                   referralMessage, selectedTags, editIndex, showAddForm>>

SetContactDetails(v) ==
    /\ FormShown
    /\ MayHold([contactData EXCEPT !.contactDetails = v])
    /\ contactDetails' = v
    /\ UNCHANGED <<fixed, status, storage, contacts, junk, notes, filters,
                   name, company, stage, referralStatus,
                   referralMessage, selectedTags, editIndex, showAddForm>>

SetReferralMessage(v) ==
    /\ FormShown
    /\ MayHold([contactData EXCEPT !.referralMessage = v])
    /\ referralMessage' = v
    /\ UNCHANGED <<fixed, status, storage, contacts, junk, notes, filters,
                   name, company, stage, referralStatus, contactDetails,
                   selectedTags, editIndex, showAddForm>>

\* a wrong toggle, which adds the tag whether it is selected or not
toggled_AlwaysAdds(prev, tag) == Append(prev, tag)

\* prev.includes(tag) ? prev.filter(t => t !== tag) : [...prev, tag]
toggled(prev, tag) ==
    IF arrayIncludes(prev, tag)
    THEN SelectSeq(prev, LAMBDA t : t # tag)
    ELSE Append(prev, tag)

\* a wrong toggle, which writes through to the tags of the edited contact
toggleTag_Aliased(tag) ==
    /\ FormShown
    /\ MayHold([contactData EXCEPT !.tags = toggled(selectedTags, tag)])
    /\ selectedTags' = toggled(selectedTags, tag)
    /\ contacts' = IF editIndex # NullIndex /\ editIndex.i < Len(contacts)
                   THEN [contacts EXCEPT ![editIndex.i + 1].tags = toggled(selectedTags, tag)]
                   ELSE contacts
    /\ UNCHANGED <<fixed, status, storage, junk, notes, filters,
                   name, company, stage, referralStatus, contactDetails,
                   referralMessage, editIndex, showAddForm>>

toggleTag(tag) ==
    /\ FormShown
    /\ MayHold([contactData EXCEPT !.tags = toggled(selectedTags, tag)])
    /\ selectedTags' = toggled(selectedTags, tag)
    /\ UNCHANGED <<fixed, status, storage, contacts, junk, notes, filters,
                   name, company, stage, referralStatus, contactDetails,
                   referralMessage, editIndex, showAddForm>>

\* a wrong reset, which leaves the selected tags in the form
resetFormState_TagsKept ==
    /\ name' = <<>>
    /\ company' = <<>>
    /\ stage' = STAGES[1]
    /\ referralStatus' = REFERRAL_STATUSES[1]
    /\ contactDetails' = <<>>
    /\ referralMessage' = DEFAULT_REFERRAL_MESSAGE
    /\ selectedTags' = selectedTags
    /\ editIndex' = NullIndex
    /\ showAddForm' = FALSE

\* a wrong reset, which clears the stage as it clears the name
resetFormState_StageCleared ==
    /\ name' = <<>>
    /\ company' = <<>>
    /\ stage' = <<>>
    /\ referralStatus' = REFERRAL_STATUSES[1]
    /\ contactDetails' = <<>>
    /\ referralMessage' = DEFAULT_REFERRAL_MESSAGE
    /\ selectedTags' = <<>>
    /\ editIndex' = NullIndex
    /\ showAddForm' = FALSE

resetFormState ==
    /\ name' = <<>>
    /\ company' = <<>>
    /\ stage' = STAGES[1]
    /\ referralStatus' = REFERRAL_STATUSES[1]
    /\ contactDetails' = <<>>
    /\ referralMessage' = DEFAULT_REFERRAL_MESSAGE
    /\ selectedTags' = <<>>
    /\ editIndex' = NullIndex
    /\ showAddForm' = FALSE

\* a wrong cancel, which leaves editIndex as it was
resetForm_EditKept ==
    /\ FormShown
    /\ name' = <<>>
    /\ company' = <<>>
    /\ stage' = STAGES[1]
    /\ referralStatus' = REFERRAL_STATUSES[1]
    /\ contactDetails' = <<>>
    /\ referralMessage' = DEFAULT_REFERRAL_MESSAGE
    /\ selectedTags' = <<>>
    /\ showAddForm' = FALSE
    /\ UNCHANGED <<fixed, status, storage, contacts, junk, notes, filters, editIndex>>

\* the close button and the Cancel button of the form
resetForm ==
    /\ FormShown
    /\ resetFormState
    /\ UNCHANGED <<fixed, status, storage, contacts, junk, notes, filters>>

\* the LinkedIn Jobs button next to the company field
OpenLinkedInJobs ==
    /\ FormShown
    /\ Len(company) > 2
    /\ showNotification(MsgLinkedIn)
    /\ UNCHANGED <<fixed, status, storage, contacts, junk, form, filters>>

\* ------------------------------------------------------------------------
\* Saving the form
\* ------------------------------------------------------------------------

\* wrong validations, which the claims about rejected and accepted saves
\* have to tell from the right one: only the name tested, only the company
\* tested, a save rejected only when both are empty
MissingRequired_NameOnly(n, c) == n = <<>>

MissingRequired_CompanyOnly(n, c) == c = <<>>

MissingRequired_BothEmpty(n, c) == n = <<>> /\ c = <<>>

\* !name || !company
MissingRequired(n, c) == n = <<>> \/ c = <<>>

Hole == [hole |-> TRUE]

\* a wrong write, one slot too early
WriteAt_SlotBefore(list, i, x) ==
    [k \in 1..Len(list) |-> IF k = i \/ (i = 0 /\ k = Len(list)) THEN x ELSE list[k]]

\* updated = [...list]; updated[i] = x: an index past the end lengthens the
\* array, the slots between the old end and i stay holes
WriteAt(list, i, x) ==
    [k \in 1..(IF i + 1 > Len(list) THEN i + 1 ELSE Len(list)) |->
        IF k = i + 1 THEN x
        ELSE IF k <= Len(list) THEN list[k]
        ELSE Hole]

HasHoles(list) == \E k \in 1..Len(list) : list[k] = Hole

\* the run-time value of an array of contacts and holes
SlotsToJs(list) ==
    JsArray([k \in 1..Len(list) |->
                IF list[k] = Hole THEN JsUndefined ELSE ContactToJs(list[k])])

\* a wrong add, which puts the new record first
SavedContacts_Prepended ==
    IF editIndex # NullIndex
    THEN WriteAt(contacts, editIndex.i, contactData)
    ELSE <<contactData>> \o contacts

\* the list that setContacts is called with
SavedContacts ==
    IF editIndex # NullIndex
    THEN WriteAt(contacts, editIndex.i, contactData)
    ELSE Append(contacts, contactData)

addOrUpdateContact ==
    /\ FormShown
    /\ IF MissingRequired(name, company)
       THEN /\ showNotification(MsgInvalid)
            /\ UNCHANGED <<status, storage, contacts, junk, form>>
       ELSE /\ Len(SavedContacts) <= MaxContacts
            /\ IF HasHoles(SavedContacts)
               THEN /\ status' = "malformed"
                    /\ junk' = SlotsToJs(SavedContacts)
                    /\ UNCHANGED contacts
               ELSE /\ contacts' = SavedContacts
                    /\ UNCHANGED <<status, junk>>
            /\ storage' \in SaveEffect(build, SlotsToJs(SavedContacts), storage)
            /\ showNotification(IF editIndex # NullIndex THEN MsgUpdated ELSE MsgAdded)
            /\ resetFormState
    /\ UNCHANGED <<fixed, filters>>

\* ------------------------------------------------------------------------
\* The buttons of the displayed rows
\* ------------------------------------------------------------------------

startEdit(index) ==
    /\ status = "running"
    /\ index \in Rows
    /\ LET contact == contacts[index + 1] IN
        /\ name' = contact.name
        /\ company' = contact.company
        /\ stage' = contact.stage
        /\ referralStatus' = contact.referralStatus
        /\ contactDetails' = contact.contactDetails
        /\ referralMessage' = contact.referralMessage
        /\ selectedTags' = contact.tags
    /\ editIndex' = Index(index)
    /\ showAddForm' = TRUE
    /\ UNCHANGED <<fixed, status, storage, contacts, junk, notes, filters>>

\* a wrong removal, which drops the first record whatever the index
Splice1_First(list, index) == SubSeq(list, 2, Len(list))

\* a wrong removal, which drops the last record whatever the index
Splice1_Last(list, index) == SubSeq(list, 1, Len(list) - 1)

\* updatedContacts.splice(index, 1): a negative index counts from the end,
\* an index past the end removes nothing, no index raises an exception
Splice1(list, index) ==
    LET start == IF index < 0
                 THEN (IF Len(list) + index < 0 THEN 0 ELSE Len(list) + index)
                 ELSE (IF index > Len(list) THEN Len(list) ELSE index)
        removed == IF start < Len(list) THEN 1 ELSE 0
    IN [k \in 1..(Len(list) - removed) |-> IF k <= start THEN list[k] ELSE list[k + 1]]

\* the delete button of a row of part_001, its confirm dialog accepted
deleteContact(index) ==
    /\ status = "running"
    /\ build = "part_001"
    /\ index \in Rows
    /\ contacts' = Splice1(contacts, index)
    /\ storage' \in SaveEffect(build, ContactsToJs(contacts'), storage)
    /\ showNotification(MsgDeleted)
    /\ UNCHANGED <<fixed, status, junk, form, filters>>

\* ------------------------------------------------------------------------
\* The filter inputs
\* ------------------------------------------------------------------------

SetNameFilter(v) ==
    /\ status = "running"
    /\ nameFilter' = v
    /\ UNCHANGED <<fixed, status, storage, contacts, junk, form, notes,
                   companyFilter, stageFilter, statusFilter, tagFilter>>

SetCompanyFilter(v) ==
    /\ status = "running"
    /\ companyFilter' = v
    /\ UNCHANGED <<fixed, status, storage, contacts, junk, form, notes,
                   nameFilter, stageFilter, statusFilter, tagFilter>>

\* a wrong handler, which also puts the form back to its defaults
SetStageFilter_ResetsForm(v) ==
    /\ status = "running"
    /\ stageFilter' = v
    /\ resetFormState
    /\ UNCHANGED <<fixed, status, storage, contacts, junk, notes,
                   nameFilter, companyFilter, statusFilter, tagFilter>>

SetStageFilter(v) ==
    /\ status = "running"
    /\ stageFilter' = v
    /\ UNCHANGED <<fixed, status, storage, contacts, junk, form, notes,
                   nameFilter, companyFilter, statusFilter, tagFilter>>

SetStatusFilter(v) ==
    /\ status = "running"
    /\ statusFilter' = v
    /\ UNCHANGED <<fixed, status, storage, contacts, junk, form, notes,
                   nameFilter, companyFilter, stageFilter, tagFilter>>

SetTagFilter(v) ==
    /\ status = "running"
    /\ tagFilter' = v
    /\ UNCHANGED <<fixed, status, storage, contacts, junk, form, notes,
                   nameFilter, companyFilter, stageFilter, statusFilter>>

\* ------------------------------------------------------------------------
\* Specification
\* ------------------------------------------------------------------------

Next ==
    \/ Mount
    \/ Reload
    \/ TimerFires
    \/ OpenForm
    \/ \E v \in NameInputs : SetName(v)
    \/ \E v \in CompanyInputs : SetCompany(v)
    \/ \E v \in StageInputs : SetStage(v)
    \/ \E v \in ReferralStatusInputs : SetReferralStatus(v)
    \/ \E v \in ContactDetailsInputs : SetContactDetails(v)
    \/ \E v \in ReferralMessageInputs : SetReferralMessage(v)
    \/ \E tag \in TagInputs : toggleTag(tag)
    \/ resetForm
    \/ OpenLinkedInJobs
    \/ addOrUpdateContact
    \/ \E index \in 0..(MaxContacts - 1) : startEdit(index)
    \/ \E index \in 0..(MaxContacts - 1) : deleteContact(index)

Spec == Init /\ [][Next]_vars

\* ------------------------------------------------------------------------
\* The codec on its own: a list of valid contacts is encoded as the save
\* effect encodes it, and the stored string decoded as the load effect
\* decodes it
\* ------------------------------------------------------------------------

CodecTags == {<<>>, <<TAGS[1]>>, <<TAGS[6], TAGS[1]>>}

CodecContacts ==
    {Contact(<<"A", "l">>, <<"A", "c", "m", "e">>, STAGES[1], REFERRAL_STATUSES[3], d, m, g) :
        d \in {<<>>, <<"a", "\\", "n", "\"">>}, m \in ReferralMessageInputs, g \in CodecTags}

RECURSIVE ListsUpTo(_, _)
ListsUpTo(S, n) ==
    IF n = 0 THEN {<<>>}
    ELSE ListsUpTo(S, n - 1) \cup {Append(l, x) : l \in {k \in ListsUpTo(S, n - 1) : Len(k) = n - 1}, x \in S}

InitCodec ==
    /\ build \in Builds
    /\ storage = NoItem
    /\ Unmounted
    /\ \E list \in ListsUpTo(CodecContacts, MaxContacts) : probe = [step |-> "input", list |-> list]

Encode ==
    /\ probe.step = "input"
    /\ \E salt \in Salts :
        probe' = [step |-> "encoded", list |-> probe.list,
                  item |-> EncodeItem(build, ContactsToJs(probe.list), salt)]
    /\ UNCHANGED <<build, status, storage, contacts, junk, form, notes, filters>>

Decode ==
    /\ probe.step = "encoded"
    /\ probe' = [step |-> "decoded", list |-> probe.list, item |-> probe.item,
                 out |-> DecodeItem(build, probe.item)]
    /\ UNCHANGED <<build, status, storage, contacts, junk, form, notes, filters>>

NextCodec == Encode \/ Decode

SpecCodec == InitCodec /\ [][NextCodec]_vars


\* ------------------------------------------------------------------------
\* deleteContact on its own: the handler is given a list and any index,
\* also one that no displayed row has
\* ------------------------------------------------------------------------

RemovePositions == (0 - 2)..(MaxContacts + 1)

InitRemove ==
    /\ build = "part_001"
    /\ storage = NoItem
    /\ Unmounted
    /\ \E list \in ListsUpTo(CodecContacts, MaxContacts), index \in RemovePositions :
            probe = [step |-> "input", list |-> list, index |-> index]

\* const updatedContacts = [...contacts]; updatedContacts.splice(index, 1);
\* setContacts(updatedContacts); showNotification(...): no statement of the
\* handler throws
RemoveAt ==
    /\ probe.step = "input"
    /\ probe' = [step |-> "removed", list |-> probe.list, index |-> probe.index,
                 out |-> Splice1(probe.list, probe.index),
                 threw |-> FALSE,
                 note |-> MsgDeleted]
    /\ UNCHANGED <<build, status, storage, contacts, junk, form, notes, filters>>

NextRemove == RemoveAt

SpecRemove == InitRemove /\ [][NextRemove]_vars

\* ------------------------------------------------------------------------
\* filteredContacts on its own: contacts.filter(...) is applied to a list
\* and five criteria, then to its own result
\* ------------------------------------------------------------------------

\* the one-character string U+017F (LATIN SMALL LETTER LONG S), which
\* toLowerCase leaves as it is and toUpperCase turns into "S"
LongS == "U+017F"

\* contacts that differ in the letter case of name and company, in stage,
\* referral status and tags
FilterContacts ==
    {Contact(<<"A", "l">>, <<"A", "c", "m", "e">>, STAGES[1], REFERRAL_STATUSES[1],
             <<>>, DEFAULT_REFERRAL_MESSAGE, <<>>),
     Contact(<<"b", "A", "L">>, <<"A", "C", "M", "E">>, STAGES[2], REFERRAL_STATUSES[1],
             <<>>, DEFAULT_REFERRAL_MESSAGE, <<TAGS[1]>>),
     Contact(<<"A", "l">>, <<"A", "c", "m", "e">>, STAGES[1], REFERRAL_STATUSES[2],
             <<>>, DEFAULT_REFERRAL_MESSAGE, <<TAGS[2], TAGS[1]>>),
     Contact(<<LongS, "a", "l">>, <<"A", "c", "m", "e">>, STAGES[1], REFERRAL_STATUSES[1],
             <<>>, DEFAULT_REFERRAL_MESSAGE, <<>>)}

\* texts typed into the two filter inputs, options picked in the three
\* filter selects ("" is the option "All ...")
NameFilterInputs == {<<>>, <<"a", "L">>, <<"b">>, <<LongS>>}

CompanyFilterInputs == {<<>>, <<"C", "M">>}

StageFilterInputs == {<<>>, STAGES[2]}

StatusFilterInputs == {<<>>, REFERRAL_STATUSES[2]}

TagFilterInputs == {<<>>, TAGS[1]}

InitFilter ==
    /\ build \in Builds
    /\ storage = NoItem
    /\ Unmounted
    /\ \E list \in ListsUpTo(FilterContacts, MaxContacts),
          nf \in NameFilterInputs, cf \in CompanyFilterInputs, sf \in StageFilterInputs,
          rf \in StatusFilterInputs, tf \in TagFilterInputs :
            probe = [step |-> "input", list |-> list,
                     nf |-> nf, cf |-> cf, sf |-> sf, rf |-> rf, tf |-> tf]

\* filteredContacts for contacts = probe.list
ApplyFilter ==
    /\ probe.step = "input"
    /\ probe' = [probe EXCEPT !.step = "filtered"] @@
                [out |-> Filter(probe.list, probe.nf, probe.cf, probe.sf, probe.rf, probe.tf)]
    /\ UNCHANGED <<build, status, storage, contacts, junk, form, notes, filters>>

\* filteredContacts for contacts = the list filtered before
FilterAgain ==
    /\ probe.step = "filtered"
    /\ probe' = [probe EXCEPT !.step = "again"] @@
                [again |-> Filter(probe.out, probe.nf, probe.cf, probe.sf, probe.rf, probe.tf)]
    /\ UNCHANGED <<build, status, storage, contacts, junk, form, notes, filters>>

NextFilter == ApplyFilter \/ FilterAgain

SpecFilter == InitFilter /\ [][NextFilter]_vars

\* ------------------------------------------------------------------------
\* The filter inputs, used on a page that shows a list: the page holds any
\* list of up to MaxContacts contacts and what the save effect stored for
\* it; the form is closed, or open for a new contact with a name typed, or
\* open on the first contact
\* ------------------------------------------------------------------------

InitShown ==
    /\ build \in Builds
    /\ probe = NoProbe
    /\ status = "running"
    /\ junk = NoJunk
    /\ notification = NullNotification
    /\ contacts \in ListsUpTo(FilterContacts, MaxContacts)
    /\ storage \in SaveEffect(build, ContactsToJs(contacts), NoItem)
    /\ nameFilter = <<>>
    /\ companyFilter = <<>>
    /\ stageFilter = <<>>
    /\ statusFilter = <<>>
    /\ tagFilter = <<>>
    /\ \/ FormDefaults
       \/ /\ name = <<"A", "l">>
          /\ company = <<>>
          /\ stage = STAGES[1]
          /\ referralStatus = REFERRAL_STATUSES[1]
          /\ contactDetails = <<>>
          /\ referralMessage = DEFAULT_REFERRAL_MESSAGE
          /\ selectedTags = <<>>
          /\ editIndex = NullIndex
          /\ showAddForm = TRUE
       \/ /\ contacts # <<>>
          /\ name = contacts[1].name
          /\ company = contacts[1].company
          /\ stage = contacts[1].stage
          /\ referralStatus = contacts[1].referralStatus
          /\ contactDetails = contacts[1].contactDetails
          /\ referralMessage = contacts[1].referralMessage
          /\ selectedTags = contacts[1].tags
          /\ editIndex = Index(0)
          /\ showAddForm = TRUE

NextFilters ==
    \/ \E v \in NameFilterInputs : SetNameFilter(v)
    \/ \E v \in CompanyFilterInputs : SetCompanyFilter(v)
    \/ \E v \in StageFilterInputs : SetStageFilter(v)
    \/ \E v \in StatusFilterInputs : SetStatusFilter(v)
    \/ \E v \in TagFilterInputs : SetTagFilter(v)

SpecFilters == InitShown /\ [][NextFilters]_vars

\* ------------------------------------------------------------------------
\* The tag buttons: the form is open for a new contact whose name and
\* company are typed; the tag buttons are pressed in any order and number,
\* the form is saved, the saved contact is edited and saved again
\* ------------------------------------------------------------------------

\* how many of the six tag buttons are pressed
MaxTags == 3

TagButtons == {TAGS[n] : n \in 1..MaxTags}

InitTags ==
    /\ build \in Builds
    /\ probe = NoProbe
    /\ status = "running"
    /\ storage = NoItem
    /\ contacts = <<>>
    /\ junk = NoJunk
    /\ notification = NullNotification
    /\ nameFilter = <<>>
    /\ companyFilter = <<>>
    /\ stageFilter = <<>>
    /\ statusFilter = <<>>
    /\ tagFilter = <<>>
    /\ name = <<"A", "l">>
    /\ company = <<"A", "c", "m", "e">>
    /\ stage = STAGES[1]
    /\ referralStatus = REFERRAL_STATUSES[1]
    /\ contactDetails = <<>>
    /\ referralMessage = DEFAULT_REFERRAL_MESSAGE
    /\ selectedTags = <<>>
    /\ editIndex = NullIndex
    /\ showAddForm = TRUE

\* toggleTag(tag), the number of selected tags bounded by MaxTags alone
TagPressed(tag) ==
    /\ FormShown
    /\ selectedTags' = toggled(selectedTags, tag)
    /\ UNCHANGED <<fixed, status, storage, contacts, junk, notes, filters,
                   name, company, stage, referralStatus, contactDetails,
                   referralMessage, editIndex, showAddForm>>

NextTags ==
    \/ \E tag \in TagButtons : TagPressed(tag)
    \/ addOrUpdateContact
    \/ \E index \in 0..(MaxContacts - 1) : startEdit(index)

SpecTags == InitTags /\ [][NextTags]_vars

\* ------------------------------------------------------------------------
\* The buttons of the rows, used on a page that shows a filtered list: the
\* filter inputs are changed, the edit and delete buttons of the displayed
\* rows are pressed, the company is retyped, the form is saved or cancelled
\* ------------------------------------------------------------------------

NextRows ==
    \/ \E v \in NameFilterInputs : SetNameFilter(v)
    \/ \E v \in StageFilterInputs : SetStageFilter(v)
    \/ \E index \in 0..(MaxContacts - 1) : startEdit(index)
    \/ \E index \in 0..(MaxContacts - 1) : deleteContact(index)
    \/ \E v \in CompanyInputs : SetCompany(v)
    \/ addOrUpdateContact
    \/ resetForm

SpecRows == InitShown /\ [][NextRows]_vars

\* ------------------------------------------------------------------------
\* Notifications and their timeouts, with a clock: probe holds the time in
\* seconds, the time the notification on display was shown at, and the
\* times at which the pending timeouts are due
\* ------------------------------------------------------------------------

\* the clock stops here
MaxTime == 6

\* duration = 3000 (milliseconds), in seconds
Duration == 3

\* the messages of the two handlers that change nothing but the
\* notification: the save of a form without a name, and the LinkedIn Jobs
\* button
NotifyMessages == {MsgInvalid, MsgLinkedIn}

\* the form is open, with a company and no name
InitNotify ==
    /\ build \in Builds
    /\ status = "running"
    /\ storage = NoItem
    /\ contacts = <<>>
    /\ junk = NoJunk
    /\ notification = NullNotification
    /\ nameFilter = <<>>
    /\ companyFilter = <<>>
    /\ stageFilter = <<>>
    /\ statusFilter = <<>>
    /\ tagFilter = <<>>
    /\ name = <<>>
    /\ company = <<"A", "c", "m", "e">>
    /\ stage = STAGES[1]
    /\ referralStatus = REFERRAL_STATUSES[1]
    /\ contactDetails = <<>>
    /\ referralMessage = DEFAULT_REFERRAL_MESSAGE
    /\ selectedTags = <<>>
    /\ editIndex = NullIndex
    /\ showAddForm = TRUE
    /\ probe = [step |-> "clock", now |-> 0, shownAt |-> 0, timers |-> {}]

\* showNotification(message): setNotification(message) and a setTimeout
\* due after the duration; nothing cancels the timeouts already pending
showNotificationTimed(message) ==
    /\ probe.step = "clock"
    /\ FormShown
    /\ notification' = message
    /\ probe' = [probe EXCEPT !.shownAt = probe.now,
                              !.timers = @ \cup {probe.now + Duration}]
    /\ UNCHANGED <<build, status, storage, contacts, junk, form, filters>>

\* the callback of a timeout that is due: setNotification(null)
TimeoutFires(due) ==
    /\ probe.step = "clock"
    /\ status = "running"
    /\ due \in probe.timers
    /\ due = probe.now
    /\ notification' = NullNotification
    /\ probe' = [probe EXCEPT !.timers = @ \ {due}]
    /\ UNCHANGED <<build, status, storage, contacts, junk, form, filters>>

\* a second passes; the timeouts that are due have run
Tick ==
    /\ probe.step = "clock"
    /\ probe.now < MaxTime
    /\ \A due \in probe.timers : due > probe.now
    /\ probe' = [probe EXCEPT !.now = @ + 1]
    /\ UNCHANGED <<build, status, storage, contacts, junk, form, notes, filters>>

NextNotify ==
    \/ \E message \in NotifyMessages : showNotificationTimed(message)
    \/ \E due \in 0..(MaxTime + Duration) : TimeoutFires(due)
    \/ Tick

SpecNotify == InitNotify /\ [][NextNotify]_vars

\* ------------------------------------------------------------------------
\* Claims
\* ------------------------------------------------------------------------

\* the record that the fields of the form spell out
FormRecord ==
    [name |-> name, company |-> company, stage |-> stage,
     referralStatus |-> referralStatus, contactDetails |-> contactDetails,
     referralMessage |-> referralMessage, tags |-> selectedTags]

\* C1: a save in add mode with an empty name or an empty company leaves the
\* contact list as it was: nothing is appended, no record changes.
C1_RejectedAddKeepsList ==
    [][(addOrUpdateContact /\ editIndex = NullIndex /\ (name = <<>> \/ company = <<>>))
        => (contacts' = contacts /\ status' = "running" /\ storage' = storage)]_vars

C1_Witness ==
    /\ status = "running"
    /\ notification = MsgInvalid
    /\ editIndex = NullIndex
    /\ name # <<>>
    /\ company = <<>>
    /\ contacts # <<>>

\* C2: in every state the component reaches from an empty or a validly
\* filled store, every record of the contact list has a non-empty name and a
\* non-empty company; this includes the records of a list that has got empty
\* slots (junk then holds the list).
C2_RequiredFieldsPresent ==
    /\ \A i \in 1..Len(contacts) : contacts[i].name # <<>> /\ contacts[i].company # <<>>
    /\ junk.t = "array" =>
            \A i \in 1..Len(junk.a) :
                junk.a[i].t = "object" =>
                    /\ GetKey(junk.a[i], K_name) # JsString(<<>>)
                    /\ GetKey(junk.a[i], K_company) # JsString(<<>>)

C2_Witness ==
    /\ status = "running"
    /\ notification = MsgUpdated
    /\ Len(contacts) = 2

\* C3: decoding the encoding of a list of valid records gives the list back:
\* no exception, the same length and order, every field of every record.
C3_RoundTrip ==
    probe.step = "decoded" =>
        /\ ~probe.out.threw
        /\ probe.out.v = ContactsToJs(probe.list)
        /\ IsContactsJs(probe.out.v)
        /\ JsToContacts(probe.out.v) = probe.list

C3_Witness ==
    /\ probe.step = "decoded"
    /\ Len(probe.list) = 2
    /\ probe.list[1].tags = <<>>
    /\ \E i \in 1..Len(probe.list[2].referralMessage) :
            probe.list[2].referralMessage[i] = "\n"
    /\ \E i \in 1..Len(probe.list[2].referralMessage) :
            probe.list[2].referralMessage[i] = "["
    /\ JsToContacts(probe.out.v) = probe.list

\* C4: the load step never lets an exception escape, whatever is stored.
C4_LoadNeverThrows == status # "threw"

\* C5: after the load step the contact list is a list of records, whatever
\* was stored (an exception that escapes the load step is C4's matter).
C5_HydratesAList ==
    [][(Mount /\ status' # "threw")
        => (/\ status' = "running"
            /\ junk' = NoJunk
            /\ LET load == LoadEffect(build, storage) IN
               contacts' = IF load.do = "set" /\ IsContactsJs(load.v)
                           THEN JsToContacts(load.v)
                           ELSE <<>>)]_vars

\* C6: a save in add mode with a name and a company appends the record the
\* form spells out: the list is the previous list followed by that record.
C6_AddAppends ==
    [][(addOrUpdateContact /\ editIndex = NullIndex /\ name # <<>> /\ company # <<>>)
        => (contacts' = Append(contacts, FormRecord) /\ status' = "running")]_vars

C6_Witness ==
    /\ status = "running"
    /\ notification = MsgAdded
    /\ Len(contacts) = 2
    /\ contacts[1] # contacts[2]

\* C7: a save in edit mode, with a name and a company and the edited position
\* inside the list, puts the record the form spells out at that position and
\* leaves the length and every other position as they were.
C7_UpdateReplacesOne ==
    [][(/\ addOrUpdateContact
        /\ editIndex # NullIndex
        /\ editIndex.i < Len(contacts)
        /\ name # <<>>
        /\ company # <<>>)
        => (/\ status' = "running"
            /\ Len(contacts') = Len(contacts)
            /\ contacts'[editIndex.i + 1] = FormRecord
            /\ \A k \in 1..Len(contacts) : k # editIndex.i + 1 => contacts'[k] = contacts[k])]_vars

C7_Witness ==
    /\ status = "running"
    /\ notification = MsgUpdated
    /\ Len(contacts) = 2
    /\ contacts[1] # contacts[2]

\* C8: a save in edit mode with an empty name or an empty company leaves the
\* contact list as it was.
C8_RejectedUpdateKeepsList ==
    [][(addOrUpdateContact /\ editIndex # NullIndex /\ (name = <<>> \/ company = <<>>))
        => (contacts' = contacts /\ status' = "running" /\ storage' = storage)]_vars

C8_Witness ==
    /\ status = "running"
    /\ notification = MsgInvalid
    /\ editIndex # NullIndex
    /\ editIndex.i < Len(contacts)
    /\ name = <<>>
    /\ contacts[editIndex.i + 1].name # <<>>

\* C9: a save in edit mode whose position is outside the list leaves the list
\* as it was: it is not lengthened and gets no empty slot.
C9_StaleUpdateKeepsList ==
    [][(addOrUpdateContact /\ editIndex # NullIndex /\ editIndex.i >= Len(contacts))
        => (contacts' = contacts /\ status' = "running" /\ junk' = NoJunk)]_vars

\* C10: deleting a displayed row makes the list one shorter; the records
\* before the position stay, every record after it moves down by one.
\* (A step is a deleteContact step only if it ends with the notification of
\* the deletion; that cheap test comes first.)
C10_RemoveShifts ==
    [][\A index \in 0..(Len(contacts) - 1) :
        (notification' = MsgDeleted /\ deleteContact(index)) =>
            /\ Len(contacts') = Len(contacts) - 1
            /\ \A k \in 1..index : contacts'[k] = contacts[k]
            /\ \A k \in (index + 2)..Len(contacts) : contacts'[k - 1] = contacts[k]]_vars

C10_Witness ==
    /\ status = "running"
    /\ notification = MsgDeleted
    /\ Len(contacts) = 1
    /\ Optional(contacts[1]) > 0


C12_EmptyCriteriaKeepAll ==
    (/\ probe.step = "filtered"
     /\ probe.nf = <<>> /\ probe.cf = <<>> /\ probe.sf = <<>>
     /\ probe.rf = <<>> /\ probe.tf = <<>>)
        => probe.out = probe.list

C12_Witness ==
    /\ probe.step = "filtered"
    /\ probe.nf = <<>> /\ probe.cf = <<>> /\ probe.sf = <<>>
    /\ probe.rf = <<>> /\ probe.tf = <<>>
    /\ Len(probe.list) = 2
    /\ probe.list[1].tags = <<>>
    /\ probe.list[2].tags # <<>>
    /\ probe.out = probe.list

\* C13: a contact of the list is in the filtered list exactly if it passes
\* the five tests together (name, company, stage, referral status, tag);
\* every contact passes the test of an empty criterion.
C13_KeptIffAllMatch ==
    probe.step = "filtered" =>
        \A i \in 1..Len(probe.list) :
            LET c == probe.list[i] IN
            /\ (\E j \in 1..Len(probe.out) : probe.out[j] = c)
                <=> (/\ includes(toLowerCase(c.name), toLowerCase(probe.nf))
                     /\ includes(toLowerCase(c.company), toLowerCase(probe.cf))
                     /\ (probe.sf = <<>> \/ c.stage = probe.sf)
                     /\ (probe.rf = <<>> \/ c.referralStatus = probe.rf)
                     /\ (probe.tf = <<>> \/ \E k \in 1..Len(c.tags) : c.tags[k] = probe.tf))
            /\ probe.nf = <<>> => nameMatch(c, probe.nf)
            /\ probe.cf = <<>> => companyMatch(c, probe.cf)
            /\ probe.sf = <<>> => stageMatch(c, probe.sf)
            /\ probe.rf = <<>> => statusMatch(c, probe.rf)
            /\ probe.tf = <<>> => tagMatch(c, probe.tf)

C13_Witness ==
    /\ probe.step = "filtered"
    /\ probe.nf # <<>>
    /\ probe.tf # <<>>
    /\ probe.sf = <<>>
    /\ Len(probe.list) = 2
    /\ Len(probe.out) = 1
    /\ probe.out[1] = probe.list[2]

\* C14: the filtered list is a subsequence of the contact list: its elements
\* are elements of the list taken at increasing positions, so none occurs
\* more often than in the list and the order is kept.
C14_OrderedSubsequence ==
    probe.step = "filtered" =>
        \E at \in [1..Len(probe.out) -> 1..Len(probe.list)] :
            /\ \A k \in 1..Len(probe.out) : probe.out[k] = probe.list[at[k]]
            /\ \A k \in 1..(Len(probe.out) - 1) : at[k] < at[k + 1]

C14_Witness ==
    /\ probe.step = "filtered"
    /\ Len(probe.list) = 2
    /\ probe.list[1] # probe.list[2]
    /\ probe.nf # <<>>
    /\ probe.out = probe.list

\* String.prototype.toUpperCase on the characters of the model: a-z become
\* A-Z, the long s becomes S, any other character stays
toUpperCase(s) ==
    [i \in 1..Len(s) |->
        IF \E n \in 1..26 : LowerCase[n] = s[i]
        THEN UpperCase[CHOOSE n \in 1..26 : LowerCase[n] = s[i]]
        ELSE IF s[i] = LongS THEN "S" ELSE s[i]]

\* the list with the names and companies in upper case
UpperFields(list) ==
    [i \in 1..Len(list) |->
        [list[i] EXCEPT !.name = toUpperCase(@), !.company = toUpperCase(@)]]

\* the letter case of the criteria and of the fields does not matter, and
\* the stage, status and tag criteria are tested exactly
CaseDoesNotMatter ==
    /\ Filter(probe.list, toUpperCase(probe.nf), toUpperCase(probe.cf),
              probe.sf, probe.rf, probe.tf) = probe.out
    /\ Filter(probe.list, toLowerCase(probe.nf), toLowerCase(probe.cf),
              probe.sf, probe.rf, probe.tf) = probe.out
    /\ Filter(UpperFields(probe.list), probe.nf, probe.cf,
              probe.sf, probe.rf, probe.tf) = UpperFields(probe.out)
    /\ \A j \in 1..Len(probe.out) :
            /\ probe.sf # <<>> => probe.out[j].stage = probe.sf
            /\ probe.rf # <<>> => probe.out[j].referralStatus = probe.rf
            /\ probe.tf # <<>> => \E k \in 1..Len(probe.out[j].tags) :
                                        probe.out[j].tags[k] = probe.tf

\* C15 as stated: name and company are tested by containment after lower
\* casing, so the letter case of a criterion or of a field never changes the
\* filtered list; stage and status are tested by equality, the tag by
\* membership.
C15_CaseNeverMatters == probe.step = "filtered" => CaseDoesNotMatter

Ascii(s) == \A i \in 1..Len(s) : s[i] # LongS

\* C15 as amended: the same for names, companies and criteria made of ASCII
\* characters.
C15_AsciiCaseNeverMatters ==
    (/\ probe.step = "filtered"
     /\ Ascii(probe.nf)
     /\ Ascii(probe.cf)
     /\ \A i \in 1..Len(probe.list) :
            Ascii(probe.list[i].name) /\ Ascii(probe.list[i].company))
        => CaseDoesNotMatter

C15_Witness ==
    /\ probe.step = "filtered"
    /\ probe.nf = <<"a", "L">>
    /\ probe.cf = <<"C", "M">>
    /\ Len(probe.list) = 2
    /\ probe.list[1].name = <<"A", "l">>
    /\ probe.list[2].name = <<"b", "A", "L">>
    /\ probe.out = probe.list

\* C16: filtering the filtered list once more with the same criteria gives
\* the filtered list again.
C16_FilterIdempotent == probe.step = "again" => probe.again = probe.out

C16_Witness ==
    /\ probe.step = "again"
    /\ Len(probe.list) = 2
    /\ Len(probe.out) = 1
    /\ probe.tf # <<>>
    /\ probe.cf # <<>>
    /\ probe.again = probe.out

\* C17: a step that changes a filter criterion (after which the filtered
\* list is computed anew) leaves the contact list, the form and the stored
\* item as they were.
C17_FilterChangeKeepsState ==
    [][filters' # filters => (contacts' = contacts /\ form' = form /\ storage' = storage)]_vars

C17_Witness ==
    /\ stageFilter # <<>>
    /\ nameFilter # <<>>
    /\ Len(contacts) = 2
    /\ Len(filteredContacts) = 1
    /\ showAddForm
    /\ editIndex = Index(0)
    /\ storage # NoItem

\* the value of the state contacts, as the JavaScript value it is
ContactsValue == IF junk = NoJunk THEN ContactsToJs(contacts) ELSE junk

\* a step that is an add, an update or a removal that went through
SavedOrRemoved ==
    \/ notification' \in {MsgAdded, MsgUpdated} /\ addOrUpdateContact
    \/ notification' = MsgDeleted /\ \E index \in 0..(Len(contacts) - 1) : deleteContact(index)

\* C18: after an add, an update or a removal that went through and left a
\* list that is not empty, and after the save effect that follows it, the
\* item stored under 'referralflow-contacts' decodes to the contact list.
C18_StoredIsCurrent ==
    [][(SavedOrRemoved /\ Len(ContactsValue'.a) > 0)
        => DecodeItem(build, storage') = [threw |-> FALSE, v |-> ContactsValue']]_vars

\* C19: the removal of the last contact writes nothing: the stored item is
\* the one written before, and a start-up reading it sets the list that
\* held the removed contact.
C19_EmptyListNotStored ==
    [][(/\ notification' = MsgDeleted
        /\ contacts' = <<>>
        /\ \E index \in 0..(Len(contacts) - 1) : deleteContact(index))
        => (/\ storage' = storage
            /\ LoadEffect(build, storage') = [do |-> "set", v |-> ContactsToJs(contacts)])]_vars

C19_Witness ==
    /\ status = "running"
    /\ notification = MsgDeleted
    /\ contacts = <<>>
    /\ storage # NoItem
    /\ LoadEffect(build, storage).do = "set"
    /\ Len(LoadEffect(build, storage).v.a) = 1

\* C20: in every state reached by form edits and saves, the stage of every
\* contact of the list is one of STAGES and its referral status one of
\* REFERRAL_STATUSES (also in a list that has got empty slots, which junk
\* then holds).
C20_EnumeratedFields ==
    /\ \A i \in 1..Len(contacts) :
            /\ \E n \in 1..Len(STAGES) : contacts[i].stage = STAGES[n]
            /\ \E n \in 1..Len(REFERRAL_STATUSES) :
                    contacts[i].referralStatus = REFERRAL_STATUSES[n]
    /\ junk.t = "array" =>
            \A i \in 1..Len(junk.a) :
                junk.a[i].t = "object" =>
                    /\ \E n \in 1..Len(STAGES) :
                            GetKey(junk.a[i], K_stage) = JsString(STAGES[n])
                    /\ \E n \in 1..Len(REFERRAL_STATUSES) :
                            GetKey(junk.a[i], K_referralStatus) = JsString(REFERRAL_STATUSES[n])

C20_Witness ==
    /\ status = "running"
    /\ Len(contacts) = 2
    /\ contacts[1].referralStatus = REFERRAL_STATUSES[2]
    /\ contacts[2].stage = STAGES[1]
    /\ notification = MsgAdded


\* no element of the list occurs at two positions
NoTagTwice(tags) ==
    \A i \in 1..Len(tags) : \A j \in 1..Len(tags) : tags[i] = tags[j] => i = j

\* every element of the list is one of the six labels of TAGS
OnlyKnownTags(tags) ==
    \A i \in 1..Len(tags) : \E n \in 1..Len(TAGS) : tags[i] = TAGS[n]

\* C21: whatever tag buttons were pressed, in whatever order and number, the
\* selected tags hold no tag twice and only labels of TAGS, and so do the
\* tags of every record of the list, saved from the form.
C21_TagsAreASet ==
    /\ NoTagTwice(selectedTags)
    /\ OnlyKnownTags(selectedTags)
    /\ \A i \in 1..Len(contacts) :
            NoTagTwice(contacts[i].tags) /\ OnlyKnownTags(contacts[i].tags)

C21_Witness ==
    /\ notification = MsgUpdated
    /\ Len(contacts) = 1
    /\ Len(contacts[1].tags) = 2
    /\ contacts[1].tags[1] = TAGS[2]
    /\ contacts[1].tags[2] = TAGS[1]
    /\ LoadEffect(build, storage) = [do |-> "set", v |-> ContactsToJs(contacts)]

\* a step that types into a field of the form, picks an option in it or
\* presses one of its tag buttons
FormEdited ==
    \/ \E v \in NameInputs : SetName(v)
    \/ \E v \in CompanyInputs : SetCompany(v)
    \/ \E v \in StageInputs : SetStage(v)
    \/ \E v \in ReferralStatusInputs : SetReferralStatus(v)
    \/ \E v \in ContactDetailsInputs : SetContactDetails(v)
    \/ \E v \in ReferralMessageInputs : SetReferralMessage(v)
    \/ \E tag \in TagInputs : toggleTag(tag)

\* C22: while a contact is being edited, a change of a form field and a
\* press of a tag button leave the contact list, and with it the edited
\* record, and the stored item as they were.
C22_FormEditsKeepList ==
    [][(editIndex # NullIndex /\ form' # form /\ FormEdited)
        => (contacts' = contacts /\ junk' = junk /\ status' = status /\ storage' = storage)]_vars

C22_Witness ==
    /\ status = "running"
    /\ showAddForm
    /\ editIndex # NullIndex
    /\ editIndex.i < Len(contacts)
    /\ name = <<>>
    /\ selectedTags = <<TAGS[1]>>
    /\ contacts[editIndex.i + 1].name # <<>>
    /\ contacts[editIndex.i + 1].tags = <<>>

\* the list without its last record
Front(list) == SubSeq(list, 1, Len(list) - 1)

\* C23: in the build that has the removal, (1) the list an add leaves,
\* with its last position removed as deleteContact removes it, is the list
\* before the add; (2) the delete button of the last row, pressed while the
\* notification of the add is still shown, leaves exactly that list; after
\* an add to the empty list the removal of position 0 leaves the empty list.
C23_AddThenRemoveRestores ==
    [][/\ (/\ build = "part_001"
            /\ notification' = MsgAdded
            /\ addOrUpdateContact)
            => (/\ Splice1(contacts', Len(contacts') - 1) = contacts
                /\ contacts = <<>> => Splice1(contacts', 0) = <<>>)
       /\ (/\ notification = MsgAdded
            /\ notification' = MsgDeleted
            /\ contacts # <<>>
            /\ deleteContact(Len(contacts) - 1))
            => (/\ contacts' = Splice1(contacts, Len(contacts) - 1)
                /\ contacts' = Front(contacts)
                /\ Len(contacts) = 1 => contacts' = <<>>)]_vars

C23_Witness ==
    /\ status = "running"
    /\ notification = MsgDeleted
    /\ contacts = <<>>
    /\ LoadEffect(build, storage).do = "set"
    /\ Len(LoadEffect(build, storage).v.a) = 1
    /\ GetKey(LoadEffect(build, storage).v.a[1], K_contactDetails) # JsString(<<>>)

\* C24: a save that went through (an add or an update) leaves the form at
\* its defaults: name, company and contact details empty, the first stage,
\* the first referral status, the template as message, no tag selected,
\* editIndex null (and the form closed), so that the next save is an add.
C24_SaveResetsForm ==
    [][(notification' \in {MsgAdded, MsgUpdated} /\ addOrUpdateContact)
        => (/\ name' = <<>>
            /\ company' = <<>>
            /\ contactDetails' = <<>>
            /\ stage' = STAGES[1]
            /\ referralStatus' = REFERRAL_STATUSES[1]
            /\ referralMessage' = DEFAULT_REFERRAL_MESSAGE
            /\ selectedTags' = <<>>
            /\ editIndex' = NullIndex
            /\ showAddForm' = FALSE)]_vars

C24_Witness ==
    /\ status = "running"
    /\ notification = MsgUpdated
    /\ FormDefaults
    /\ \E i \in 1..Len(contacts) : contacts[i].tags # <<>>

\* the positions (from 0) in the contact list of the displayed rows, in the
\* order of the rows
RowPositions ==
    SelectSeq([p \in 1..Len(contacts) |-> p - 1],
              LAMBDA p : Matches(contacts[p + 1], nameFilter, companyFilter,
                                 stageFilter, statusFilter, tagFilter))

\* C25: the edit button of a displayed row loads into the form the record
\* shown in that row and makes its position in the list the position that
\* the following save writes, whatever the filter hides.
C25_EditLoadsShownRow ==
    [][\A index \in Rows :
        (editIndex' = Index(index) /\ startEdit(index)) =>
            /\ FormRecord' = filteredContacts[index + 1]
            /\ editIndex' = Index(RowPositions[index + 1])]_vars

\* C26: the delete button of a displayed row, confirmed, removes from the
\* list the record shown in that row, at its position, and no other,
\* whatever the filter hides.
C26_DeleteRemovesShownRow ==
    [][\A index \in Rows :
        (notification' = MsgDeleted /\ deleteContact(index)) =>
            contacts' = Splice1(contacts, RowPositions[index + 1])]_vars

\* C27: in every state editIndex is null or a position of the contact list.
C27_EditIndexInList ==
    status = "running" => (editIndex = NullIndex \/ editIndex.i < Len(contacts))

\* C28: start-up never puts an encoding of the empty list where another
\* item was stored; where the load effect sets nothing, storage stays as it
\* was; a stored list of contacts becomes the contact list, and the item
\* stored after start-up decodes to that list as the item before did.
C28_MountKeepsStoredList ==
    [][Mount =>
        /\ \A salt \in Salts :
                storage' = EncodeItem(build, ContactsToJs(<<>>), salt) => storage' = storage
        /\ LoadEffect(build, storage).do \in {"skip", "throw"} => storage' = storage
        /\ (LoadEffect(build, storage).do = "set" /\ IsContactsJs(LoadEffect(build, storage).v))
                => (/\ contacts' = JsToContacts(LoadEffect(build, storage).v)
                    /\ LoadEffect(build, storage') = LoadEffect(build, storage))]_vars

C28_Witness ==
    /\ status = "running"
    /\ build = "part_001"
    /\ notification = NullNotification
    /\ FormDefaults
    /\ contacts = <<SeedContact>>
    /\ LoadEffect(build, storage) = [do |-> "set", v |-> ContactsToJs(contacts)]

\* C29: the close button and the Cancel button of the form, whatever the
\* form holds, leave the contact list and the stored item as they were and
\* set editIndex to null.
C29_CancelKeepsList ==
    [][(showAddForm /\ resetForm)
        => (/\ contacts' = contacts
            /\ junk' = junk
            /\ status' = status
            /\ storage' = storage
            /\ editIndex' = NullIndex
            /\ showAddForm' = FALSE)]_vars

\* the form was cancelled after a rejected save: it is closed and at its
\* defaults while the notification is still the one of the rejected save
C29_Witness ==
    /\ status = "running"
    /\ notification = MsgInvalid
    /\ ~showAddForm
    /\ FormDefaults
    /\ contacts # <<>>
    /\ storage # NoItem

\* C30: a notification is cleared no earlier than its full duration after
\* it was shown; the timeout of an earlier notification does not clear a
\* later one.
C30_ShownForItsDuration ==
    [][(probe.step = "clock" /\ notification # NullNotification /\ notification' = NullNotification)
        => probe.now >= probe.shownAt + Duration]_vars

====
